---- MODULE Spec2Model ----
(***************************************************************************)
(* The Buyer-site order servers: four near-duplicate Express servers that  *)
(* create a Stripe checkout session for an order (/create-checkout-session)*)
(* and relay a Discord notification when Stripe reports the payment        *)
(* (/webhook).                                                             *)
(*                                                                         *)
(*   "server1"  src/server.js lines 1-155                                  *)
(*   "server2"  src/server.js lines 157-307                                *)
(*   "part000"  src/unnamed/part_000                                       *)
(*   "part001"  src/unnamed/part_001                                       *)
(*                                                                         *)
(* One server variant runs; it handles up to MaxReqs requests, each an     *)
(* async handler that runs to its next await, is suspended while the       *)
(* outbound call is in flight, and resumes when that call settles.         *)
(***************************************************************************)
EXTENDS Integers, Sequences, FiniteSets

VARIABLES variant, secretSet, alive, reqs, client

vars == <<variant, secretSet, alive, reqs, client>>

\* ------------------------------------------------------------------ bounds
\* Number of requests the server receives in one run.
MaxReqs == 2
\* Prices range over -MaxPrice..MaxPrice eighths of a dollar.
MaxPrice == 2
\* Number of change events the order form receives after the page has loaded.
MaxChanges == 1

\* --------------------------------------------------------------- JS values
\* A JavaScript number: NaN, or a value v. Prices are counted in eighths of a
\* dollar (dyadic fractions are exact IEEE doubles, so price * 100 is computed
\* exactly by the code); amounts in cents are integers.
NaN == [nan |-> TRUE, v |-> 0]
Num(k) == [nan |-> FALSE, v |-> k]

\* A JSON value found in the price field of a request body.
\*   t = "undefined"  the field is absent
\*   t = "null"
\*   t = "number"     the number v/8
\*   t = "string"     digits: the text starts with the decimal text of v/8;
\*                    junk: non-numeric characters follow. The strings drawn
\*                    are "", "abc", "0.125" and "0.125abc".
JsUndefined == [t |-> "undefined", v |-> 0, digits |-> FALSE, junk |-> FALSE]
JsNull == [t |-> "null", v |-> 0, digits |-> FALSE, junk |-> FALSE]
JsNumber(k) == [t |-> "number", v |-> k, digits |-> FALSE, junk |-> FALSE]
JsString(k, d, j) == [t |-> "string", v |-> IF d THEN k ELSE 0, digits |-> d, junk |-> j]

PriceValues ==
    {JsUndefined, JsNull}
    \cup {JsNumber(k) : k \in (0 - MaxPrice)..MaxPrice}
    \cup {JsString(1, d, j) : d \in BOOLEAN, j \in BOOLEAN}

\* ToBoolean, as `x || fallback` applies it.
Truthy(x) ==
    CASE x.t = "undefined" -> FALSE
      [] x.t = "null" -> FALSE
      [] x.t = "number" -> x.v # 0
      [] x.t = "string" -> x.digits \/ x.junk

\* ToNumber, as the `*` operator applies it to its operand.
ToNumber(x) ==
    CASE x.t = "undefined" -> NaN
      [] x.t = "null" -> Num(0)
      [] x.t = "number" -> Num(x.v)
      [] x.t = "string" -> IF x.junk THEN NaN ELSE Num(x.v)

\* parseFloat: the longest numeric prefix of String(x), NaN when there is none.
ParseFloat(x) ==
    CASE x.t = "undefined" -> NaN
      [] x.t = "null" -> NaN
      [] x.t = "number" -> Num(x.v)
      [] x.t = "string" -> IF x.digits THEN Num(x.v) ELSE NaN

\* n * 100 for n in eighths of a dollar, as a count of half cents.
Times100(n) == IF n.nan THEN NaN ELSE Num(25 * n.v)

\* Math.round of h half cents: the nearest integer, a tie going up.
MathRound(h) == IF h.nan THEN NaN ELSE Num((h.v + 1) \div 2)

\* The 4.00 of `itemPrice || 4.00`, in eighths of a dollar.
FallbackPrice == 4 * 8

\* ------------------------------------------------------------ the requests
Variants == {"server1", "server2", "part000", "part001"}
Signatures == {"missing", "invalid", "valid"}
Completed == "checkout.session.completed"
EventTypes == {Completed, "payment_intent.succeeded"}
\* session.currency of the event; "null" is the JSON null of a session that
\* carries no payment (mode "setup").
Currencies == {"usd", "null"}
AllCurrencies == Currencies \cup {"eur"}
\* session.amount_total of the events of foreign sessions, in cents.
Amounts == {0, 5, 400, 1999, 5000}

\* Order metadata: whether the order's details (discord handle, item type,
\* option, features) are there, and the customer's notes: "none", "short" (at
\* most 500 characters), "long" (more), or "truncated" (the first 500 of a
\* long text).
NoMeta == [details |-> FALSE, context |-> "none"]

\* The text (x / 100).toFixed(2) of an amount of x cents: the digits before the
\* point and the two after it.
ToFixed2(x) == [whole |-> x \div 100, frac |-> x % 100]

\* The Discord payload, as far as it is read here: the amount text, the
\* currency code shown with it ("none": no code) and the order metadata.
NoPayload == [amount |-> ToFixed2(0), currency |-> "none", meta |-> NoMeta]

\* What stripe.checkout.sessions.retrieve resolves to, as far as part_001 reads
\* it: amount_total and metadata (hasMetadata FALSE: metadata is null).
NoSession == [amount_total |-> 0, metadata |-> NoMeta, hasMetadata |-> TRUE]

\* A request slot before its request arrives.
\*   webhook:  sig, type, hasData (the event has a data member), currency,
\*             amount_total (cents), metadata (echoed by the event), session
\*             (the request that created the session, 0 for a session this
\*             server did not create), full (the session retrieve resolved to)
\*   checkout: priceKey (the key the body carries its price under), price,
\*             hasDetails, hasContext, longContext; metadata is what the
\*             handler attaches to the session
\*   intent:   amount and intentCurrency (the body's amount and currency),
\*             intents (the calls of paymentIntents.create)
NoRequest ==
    [kind |-> "none", pc |-> "idle",
     sig |-> "missing", type |-> Completed, currency |-> "usd",
     amount_total |-> 0, session |-> 0, metadata |-> NoMeta,
     priceKey |-> "itemPrice", price |-> JsUndefined,
     hasDetails |-> FALSE, hasContext |-> FALSE, longContext |-> FALSE,
     status |-> 0, body |-> "none", responses |-> 0,
     verifies |-> 0, queries |-> 0, queryResult |-> "none",
     notifs |-> 0, notifyResult |-> "none", payload |-> NoPayload,
     creates |-> <<>>, createResult |-> "none",
     amount |-> JsUndefined, intentCurrency |-> JsUndefined, intents |-> <<>>,
     hasData |-> TRUE, full |-> NoSession]

\* res.status(status).send(body) / res.json(body), ending the handler.
Respond(r, status, body) ==
    [r EXCEPT !.status = status, !.body = body, !.responses = @ + 1, !.pc = "done"]

\* stripe.webhooks.constructEvent(req.body, sig, STRIPE_WEBHOOK_SECRET) throws
\* unless the header carries a signature of the body under the secret.
ConstructEventThrows(sig) == ~secretSet \/ sig # "valid"

\* Mutant of IsPaidEvent: the dispatcher acts on every event type.
IsPaidEventAnyType(type) == type \in EventTypes

\* event.type === 'checkout.session.completed'
IsPaidEvent(type) == type = Completed

\* session.currency.toUpperCase()
ToUpperCase(c) == CASE c = "usd" -> "USD" [] c = "eur" -> "EUR"

\* The amount the payload is built from: session.amount_total of the event in
\* server.js and part_000, fullSession.amount_total of the retrieved session in
\* part_001.
AmountTotal(r) == IF variant = "part001" THEN r.full.amount_total ELSE r.amount_total

\* Mutant of AmountText: the cents are not converted to major units.
AmountTextInCents(r) == [whole |-> AmountTotal(r), frac |-> 0]

\* (session.amount_total / 100).toFixed(2)
AmountText(r) == ToFixed2(AmountTotal(r))

\* The payload each variant builds: server.js titles the amount
\* "Amount Paid (USD)" and shows no metadata; part_000 writes the event's
\* currency in upper case; part_001 shows "$" + amount, no currency code, and
\* the metadata of the retrieved session.
DiscordPayload(r) ==
    CASE variant \in {"server1", "server2"} ->
            [amount |-> AmountText(r), currency |-> "USD", meta |-> NoMeta]
      [] variant = "part000" ->
            [amount |-> AmountText(r), currency |-> ToUpperCase(r.currency),
             meta |-> NoMeta]
      [] variant = "part001" ->
            [amount |-> AmountText(r), currency |-> "none", meta |-> r.full.metadata]

\* Mutant of CallNotifier: the post is not awaited (fire and forget) and the
\* handler acknowledges at once.
CallNotifierNoAwait(r) == Respond([r EXCEPT !.notifs = @ + 1], 200, "received")

\* await axios.post(DISCORD_WEBHOOK_URL, payload): the Notifier call goes out and
\* the handler is suspended until it settles.
CallNotifier(r) ==
    [r EXCEPT !.notifs = @ + 1, !.payload = DiscordPayload(r), !.pc = "awaitNotify"]

\* What becomes of a handler whose promise rejects with nobody catching it:
\* Express 4 drops the rejection, so the request is never answered ("hang"), and
\* Node 15+ ends the process on it ("crash"); Express 5 answers 500.
Rejections == {"hang", "crash", "error500"}

\* The async handler throws outside every try block.
Rejected(r, rejection) ==
    IF rejection = "error500"
    THEN Respond(r, 500, "internal_error")
    ELSE [r EXCEPT !.pc = "aborted"]

\* const session = event.data.object throws a TypeError on an event without a
\* data member; the statement stands outside the try in every variant.
DataThrows(r) == ~r.hasData

\* /webhook of server.js (both variants), up to its first await or response.
WebhookServer(r, rejection) ==
    IF ~secretSet
    THEN Respond(r, 500, "secret_missing")
    ELSE LET r1 == [r EXCEPT !.verifies = @ + 1]
         IN  IF ConstructEventThrows(r.sig)
             THEN Respond(r1, 400, "webhook_error")
             ELSE IF IsPaidEvent(r.type)
                  THEN IF DataThrows(r)
                       THEN Rejected(r1, rejection)
                       ELSE [r1 EXCEPT !.queries = @ + 1, !.pc = "awaitLineItems"]
                  ELSE Respond(r1, 200, "received")

\* /webhook of part_000: no secret check, no provider query; the payload is
\* built inside the try, where session.currency.toUpperCase() throws on null.
WebhookPart000(r, rejection) ==
    LET r1 == [r EXCEPT !.verifies = @ + 1]
    IN  IF ConstructEventThrows(r.sig)
        THEN Respond(r1, 400, "webhook_error")
        ELSE IF IsPaidEvent(r.type)
             THEN IF DataThrows(r)
                  THEN Rejected(r1, rejection)
                  ELSE IF r.currency = "null"
                       THEN Respond(r1, 200, "received")
                       ELSE CallNotifier(r1)
             ELSE Respond(r1, 200, "received")

\* /webhook of part_001: the parsed body is taken as the event, unverified.
WebhookPart001(r, rejection) ==
    IF IsPaidEvent(r.type)
    THEN IF DataThrows(r)
         THEN Rejected(r, rejection)
         ELSE [r EXCEPT !.queries = @ + 1, !.pc = "awaitRetrieve"]
    ELSE Respond(r, 200, "received")

WebhookSync(r, rejection) ==
    CASE variant \in {"server1", "server2"} -> WebhookServer(r, rejection)
      [] variant = "part000" -> WebhookPart000(r, rejection)
      [] variant = "part001" -> WebhookPart001(r, rejection)

\* The argument of stripe.checkout.sessions.create, as far as it is read here.
SessionParams(unitAmount) ==
    [unit_amount |-> unitAmount, quantity |-> 1, currency |-> "usd", mode |-> "payment"]

\* await stripe.checkout.sessions.create(params)
CallCreate(r, unitAmount) ==
    [r EXCEPT !.creates = Append(@, SessionParams(unitAmount)), !.pc = "awaitCreate"]

\* const finalItemPrice = itemPrice || 4.00
FinalItemPrice(itemPrice) ==
    IF Truthy(itemPrice) THEN ToNumber(itemPrice) ELSE Num(FallbackPrice)

\* const priceInCents = Math.round(finalItemPrice * 100)
PriceInCents(itemPrice) == MathRound(Times100(FinalItemPrice(itemPrice)))

\* req.body[key] for the two price keys: const { itemPrice } = req.body in
\* server.js, const { finalPrice } = req.body in part_001.
PriceKeys == {"itemPrice", "finalPrice"}
BodyField(r, key) == IF r.priceKey = key THEN r.price ELSE JsUndefined

\* /create-checkout-session of server.js (both variants), up to its await. Only
\* itemPrice and itemName are read: no metadata is passed on.
CheckoutServer(r) == CallCreate(r, PriceInCents(BodyField(r, "itemPrice")))

\* const amountCents = Math.round(parseFloat(finalPrice) * 100)
AmountCents(finalPrice) == MathRound(Times100(ParseFloat(finalPrice)))

\* if (amountCents <= 0): false for NaN.
NotPositive(n) == ~n.nan /\ n.v <= 0

\* metadata: { discordUsername, itemType, ..., context: context.substring(0, 500) }
SessionMetadata(r) ==
    [details |-> r.hasDetails, context |-> IF r.longContext THEN "truncated" ELSE "short"]

\* /create-checkout-session of part_001, up to its await or response. The
\* params are built inside the try: context.substring throws a TypeError when
\* the body has no context, before the provider is called.
CheckoutPart001(r) ==
    IF NotPositive(AmountCents(BodyField(r, "finalPrice")))
    THEN Respond(r, 400, "price_error")
    ELSE IF ~r.hasContext
         THEN Respond(r, 500, "error_message")
         ELSE CallCreate([r EXCEPT !.metadata = SessionMetadata(r)],
                         AmountCents(BodyField(r, "finalPrice")))

\* part_000 registers no /create-checkout-session route: Express answers 404.
CheckoutPart000(r) == Respond(r, 404, "not_found")

CheckoutSync(r) ==
    CASE variant \in {"server1", "server2"} -> CheckoutServer(r)
      [] variant = "part000" -> CheckoutPart000(r)
      [] variant = "part001" -> CheckoutPart001(r)

\* The catch block of /create-checkout-session: server.js sends a fixed message,
\* part_001 sends error.message.
CreateFailedBody == IF variant = "part001" THEN "error_message" ELSE "generic_error"

\* Mutant of AfterCreate: a failed provider call is tried a second time.
AfterCreateRetry(r, ok) ==
    IF ok
    THEN Respond([r EXCEPT !.createResult = "ok"], 200, "session")
    ELSE IF Len(r.creates) < 2
         THEN CallCreate([r EXCEPT !.createResult = "failed"], r.creates[1].unit_amount)
         ELSE Respond([r EXCEPT !.createResult = "failed"], 500, CreateFailedBody)

\* After await stripe.checkout.sessions.create settles.
AfterCreate(r, ok) ==
    IF ok
    THEN Respond([r EXCEPT !.createResult = "ok"], 200, "session")
    ELSE Respond([r EXCEPT !.createResult = "failed"], 500, CreateFailedBody)

\* What listLineItems resolves to, or that it rejects: an empty list, a list
\* whose first item has a description ("items"), or one whose first item has a
\* falsy description and a null price or a null price.product ("unnamed").
LineItemResults == {"failed", "empty", "items", "unnamed"}

\* const item = lineItems.data[0]; item.description || item.price.product.name
\* throws a TypeError in the second server.js on an empty list and on an item
\* without description whose price or product is null; the first guards every
\* step with ?. and a null item.
ItemNameThrows(result) == variant = "server2" /\ result \in {"empty", "unnamed"}

\* After await stripe.checkout.sessions.listLineItems settles (server.js): a
\* rejection or a throw lands in the catch, and the handler acknowledges.
AfterLineItems(r, result) ==
    LET r1 == [r EXCEPT !.queryResult = result]
    IN  IF result = "failed" \/ ItemNameThrows(result)
        THEN Respond(r1, 200, "received")
        ELSE CallNotifier(r1)

\* Mutant of AfterNotify: a Notifier failure is reported to the provider.
AfterNotifyPropagates(r, ok) ==
    IF ok
    THEN Respond([r EXCEPT !.notifyResult = "ok"], 200, "received")
    ELSE Respond([r EXCEPT !.notifyResult = "failed"], 500, "internal_error")

\* After await axios.post settles: success or the catch, then res.json.
AfterNotify(r, ok) ==
    Respond([r EXCEPT !.notifyResult = IF ok THEN "ok" ELSE "failed"], 200, "received")

\* The sessions retrieve can resolve to for a session this server did not
\* create: one of 19.99 with order details, which need not be what the event
\* says, and one whose metadata is null.
ForeignSessions ==
    {[amount_total |-> 1999, metadata |-> [details |-> TRUE, context |-> "short"],
      hasMetadata |-> TRUE],
     [amount_total |-> 400, metadata |-> NoMeta, hasMetadata |-> FALSE]}

\* What sessions.retrieve(session.id) can resolve to: the session this server
\* created, which the provider's event describes, or any session otherwise
\* (the event is not verified, so it need not agree with the session).
RetrievedSessions(r) ==
    IF r.session # 0
    THEN {[amount_total |-> r.amount_total, metadata |-> r.metadata, hasMetadata |-> TRUE]}
    ELSE ForeignSessions

\* After await stripe.checkout.sessions.retrieve settles (part_001): the await
\* and the reading of fullSession.metadata are outside the try, so a rejection
\* or null metadata leaves the handler; otherwise the notification is built
\* from the retrieved session.
AfterRetrieve(r, ok, rejection, fullSession) ==
    IF ok
    THEN LET r1 == [r EXCEPT !.queryResult = "ok", !.full = fullSession]
         IN  IF fullSession.hasMetadata
             THEN CallNotifier(r1)
             ELSE Rejected(r1, rejection)
    ELSE Rejected([r EXCEPT !.queryResult = "failed"], rejection)

\* ------------------------------------------------------------- the client
\* script.js: the order form, its displayed total and its submit listener.
ItemTypes == {"Video", "Image"}
Durations == {"1 min", "Custom"}
ImageSizes == {"Small", "Medium", "Large", "XL", "Super-Size"}
Features == {"Clothed", "Other"}

\* BASE_PRICES and PRICE_MAP, in dollars.
BasePrice(type) == CASE type = "Video" -> 5 [] type = "Image" -> 1
PriceMap(option) ==
    CASE option = "1 min" -> 5
      [] option = "Custom" -> 10
      [] option = "Small" -> 1
      [] option = "Medium" -> 3
      [] option = "Large" -> 5
      [] option = "XL" -> 7
      [] option = "Super-Size" -> 8
      [] option = "Clothed" -> 0 - 1
      [] option = "Other" -> 0

RECURSIVE FeatureCosts(_)
\* features.forEach(feature => total += PRICE_MAP[feature.value])
FeatureCosts(fs) ==
    IF fs = {} THEN 0
    ELSE LET f == CHOOSE x \in fs : TRUE
         IN  PriceMap(f) + FeatureCosts(fs \ {f})

\* calculateTotal: the total of the checked options, written to the display.
CalculateTotal(c) ==
    LET base == IF c.itemType = "Video" /\ c.duration # "none"
                THEN PriceMap(c.duration)
                ELSE IF c.itemType = "Image" /\ c.imageSize # "none"
                     THEN PriceMap(c.imageSize)
                     ELSE BasePrice(c.itemType)
    IN  [c EXCEPT !.display = base + FeatureCosts(c.features)]

\* toggleOptions: checks a default option of the selected type when none is
\* checked, then recalculates.
ToggleOptions(c) ==
    CalculateTotal(
        IF c.itemType = "Video"
        THEN [c EXCEPT !.duration = IF @ = "none" THEN "1 min" ELSE @]
        ELSE [c EXCEPT !.imageSize = IF @ = "none" THEN "Small" ELSE @])

\* No page is open.
NoPage ==
    [pc |-> "unloaded", itemType |-> "Video", duration |-> "none",
     imageSize |-> "none", features |-> {}, display |-> 0,
     hasContextField |-> FALSE, disabled |-> FALSE, text |-> "initial",
     sentPrice |-> 0, arrived |-> FALSE, slot |-> 0, changes |-> 0]

\* The page after DOMContentLoaded: the type checked by the markup, the initial
\* toggleOptions() call done. Whether the form has a context field is the
\* markup's choice.
PageLoaded(type, contextField) ==
    ToggleOptions([NoPage EXCEPT !.pc = "idle", !.itemType = type,
                                 !.hasContextField = contextField])

\* finalPriceDisplay.textContent = `$${total.toFixed(2)}` and, on submit,
\* data.finalPrice = textContent.replace('$', ''): for a whole number of
\* dollars the text "N.00", the decimal text of N dollars (8 N eighths).
FinalPriceText(total) == JsString(8 * total, TRUE, FALSE)

\* Mutant of AfterSubmission: the button is re-enabled in the try block, not in
\* a finally, so not after an error.
AfterSubmissionNoFinally(c, failed) ==
    [c EXCEPT !.pc = "idle", !.text = IF failed THEN "Try Again" ELSE @,
              !.disabled = failed, !.sentPrice = 0]

\* The end of the submit listener: the catch block after a failure, then the
\* finally block; the listener's data object is gone with it.
AfterSubmission(c, failed) ==
    [c EXCEPT !.pc = "idle", !.text = IF failed THEN "Try Again" ELSE @,
              !.disabled = FALSE, !.sentPrice = 0]

\* response.json() rejects on a body that is not JSON (Express's 404 page).
JsonRejects(r) == r.body = "not_found"

\* if (session.error): the bodies that carry an error member.
HasErrorMember(r) == r.body \in {"generic_error", "error_message", "price_error"}

\* ----------------------------------------------------------------- actions
Reqs == 1..MaxReqs

\* Requests take the slots in the order they arrive.
Free(i) ==
    /\ alive
    /\ reqs[i].pc = "idle"
    /\ \A j \in Reqs : j < i => reqs[j].pc # "idle"

InitServer ==
    /\ variant \in Variants
    /\ secretSet \in BOOLEAN
    /\ alive = TRUE
    /\ reqs = [i \in Reqs |-> NoRequest]

\* The server with no order page open in a browser.
Init ==
    /\ InitServer
    /\ client = NoPage

\* The /webhook handler runs on a request to its first await or response.
WebhookArrives(i, event) ==
    /\ \E rejection \in IF DataThrows(event) THEN Rejections ELSE {"hang"} :
         /\ reqs' = [reqs EXCEPT ![i] = WebhookSync(event, rejection)]
         /\ alive' = ~(reqs'[i].pc = "aborted" /\ rejection = "crash")
    /\ UNCHANGED <<variant, secretSet, client>>

\* A signed or unsigned event about a session this server did not create.
ForeignEvent(sig, type, cur, amount) ==
    [NoRequest EXCEPT !.kind = "webhook", !.sig = sig, !.type = type,
                      !.currency = cur, !.amount_total = amount]

\* A body with a type and no data member. The provider's events have one, so
\* such a body is drawn unsigned.
BareEvent(sig, type) ==
    [NoRequest EXCEPT !.kind = "webhook", !.sig = sig, !.type = type,
                      !.hasData = FALSE]

BareEvents == {BareEvent("missing", type) : type \in EventTypes}

\* POST /webhook arrives and its handler runs to its first await or response.
WebhookReceive(i) ==
    /\ Free(i)
    /\ \E event \in {ForeignEvent(sig, type, cur, 400) :
                        sig \in Signatures, type \in EventTypes, cur \in Currencies}
                    \cup BareEvents :
         WebhookArrives(i, event)

\* The /create-checkout-session handler runs on a request to its await or
\* response.
CheckoutArrives(i, request) ==
    /\ reqs' = [reqs EXCEPT ![i] = CheckoutSync(request)]
    /\ UNCHANGED <<variant, secretSet, alive, client>>

\* A request body: the price under `key`, the order's details or not, and the
\* notes ("none": no context field).
OrderRequest(key, price, details, context) ==
    [NoRequest EXCEPT !.kind = "checkout", !.priceKey = key, !.price = price,
                      !.hasDetails = details, !.hasContext = context # "none",
                      !.longContext = context = "long"]

\* The key the running variant reads the price from.
HandlerPriceKey == IF variant = "part001" THEN "finalPrice" ELSE "itemPrice"

\* POST /create-checkout-session arrives, the price under the key the handler
\* reads.
CheckoutReceive(i) ==
    /\ Free(i)
    /\ \E price \in PriceValues, context \in {"none", "short"} :
         CheckoutArrives(i, OrderRequest(HandlerPriceKey, price, FALSE, context))

LineItemsSettle(i) ==
    /\ alive
    /\ reqs[i].pc = "awaitLineItems"
    /\ \E result \in LineItemResults :
         reqs' = [reqs EXCEPT ![i] = AfterLineItems(reqs[i], result)]
    /\ UNCHANGED <<variant, secretSet, alive, client>>

RetrieveSettle(i) ==
    /\ alive
    /\ reqs[i].pc = "awaitRetrieve"
    /\ \E ok \in BOOLEAN :
       \E fullSession \in IF ok THEN RetrievedSessions(reqs[i]) ELSE {NoSession} :
       \E rejection \in IF ok /\ fullSession.hasMetadata THEN {"hang"} ELSE Rejections :
         /\ reqs' = [reqs EXCEPT ![i] = AfterRetrieve(reqs[i], ok, rejection, fullSession)]
         /\ alive' = ~(reqs'[i].pc = "aborted" /\ rejection = "crash")
    /\ UNCHANGED <<variant, secretSet, client>>

NotifySettle(i) ==
    /\ alive
    /\ reqs[i].pc = "awaitNotify"
    /\ \E ok \in BOOLEAN :
         reqs' = [reqs EXCEPT ![i] = AfterNotify(reqs[i], ok)]
    /\ UNCHANGED <<variant, secretSet, alive, client>>

CreateSettle(i) ==
    /\ alive
    /\ reqs[i].pc = "awaitCreate"
    /\ \E ok \in BOOLEAN :
         reqs' = [reqs EXCEPT ![i] = AfterCreate(reqs[i], ok)]
    /\ UNCHANGED <<variant, secretSet, alive, client>>

Next ==
    \E i \in Reqs :
        \/ WebhookReceive(i)
        \/ CheckoutReceive(i)
        \/ LineItemsSettle(i)
        \/ RetrieveSettle(i)
        \/ NotifySettle(i)
        \/ CreateSettle(i)

Spec == Init /\ [][Next]_vars

\* ------------------------------------------------------------ one order
\* The flow of one order: request 1 is a /create-checkout-session request with
\* any body, request 2 a /webhook request with the event of the session that
\* request 1 created, or with the event of a foreign session.
Contexts == {"none", "short", "long"}

OrderCheckout ==
    /\ Free(1)
    /\ \E key \in PriceKeys, price \in PriceValues, details \in BOOLEAN,
          context \in Contexts :
         CheckoutArrives(1, OrderRequest(key, price, details, context))

\* The provider has a paid session for request i: the create call succeeded with
\* an amount it accepts.
SessionPaid(i) ==
    /\ reqs[i].createResult = "ok"
    /\ ~reqs[i].creates[1].unit_amount.nan
    /\ reqs[i].creates[1].unit_amount.v > 0

\* The event of the session of request i: its amount, currency and metadata
\* are those the session was created with.
SessionEvent(i, sig, type) ==
    [NoRequest EXCEPT !.kind = "webhook", !.sig = sig, !.type = type,
                      !.currency = reqs[i].creates[1].currency,
                      !.amount_total = reqs[i].creates[1].unit_amount.v
                                         * reqs[i].creates[1].quantity,
                      !.session = i, !.metadata = reqs[i].metadata]

OrderEvent ==
    /\ alive
    /\ reqs[2].pc = "idle"
    /\ SessionPaid(1)
    /\ \E sig \in Signatures, type \in EventTypes :
         WebhookArrives(2, SessionEvent(1, sig, type))

OtherEvent ==
    /\ alive
    /\ reqs[2].pc = "idle"
    /\ \E event \in {ForeignEvent(sig, type, cur, amount) :
                        sig \in Signatures, type \in EventTypes,
                        cur \in AllCurrencies, amount \in Amounts}
                    \cup BareEvents :
         WebhookArrives(2, event)

NextOrder ==
    \/ OrderCheckout
    \/ OrderEvent
    \/ OtherEvent
    \/ \E i \in Reqs :
          \/ LineItemsSettle(i)
          \/ RetrieveSettle(i)
          \/ NotifySettle(i)
          \/ CreateSettle(i)

SpecOrder == Init /\ [][NextOrder]_vars

\* ------------------------------------------------------- the client's order
\* The order page against the server. A request whose fetch failed at the
\* network may still be running on the server when the next one arrives.
InitClient ==
    /\ InitServer
    /\ \E type \in ItemTypes, contextField \in BOOLEAN :
         client = PageLoaded(type, contextField)

\* One more change event on the form.
Changed(c) == [c EXCEPT !.changes = @ + 1]

\* change on the type radios.
ChangeType ==
    /\ client.pc # "unloaded"
    /\ client.changes < MaxChanges
    /\ \E type \in ItemTypes :
         client' = ToggleOptions(Changed([client EXCEPT !.itemType = type]))
    /\ UNCHANGED <<variant, secretSet, alive, reqs>>

\* change on a radio of the visible option group.
ChangeOption ==
    /\ client.pc # "unloaded"
    /\ client.changes < MaxChanges
    /\ \/ /\ client.itemType = "Video"
          /\ \E d \in Durations :
               client' = CalculateTotal(Changed([client EXCEPT !.duration = d]))
       \/ /\ client.itemType = "Image"
          /\ \E z \in ImageSizes :
               client' = CalculateTotal(Changed([client EXCEPT !.imageSize = z]))
    /\ UNCHANGED <<variant, secretSet, alive, reqs>>

\* change on a feature checkbox.
ChangeFeature ==
    /\ client.pc # "unloaded"
    /\ client.changes < MaxChanges
    /\ \E f \in Features :
         client' = CalculateTotal(
                      Changed([client EXCEPT !.features =
                                  IF f \in @ THEN @ \ {f} ELSE @ \cup {f}]))
    /\ UNCHANGED <<variant, secretSet, alive, reqs>>

\* submit: the checkout button is the form's submit button, and a browser
\* submits a form only through an enabled one. The body is built from the form
\* and the displayed price, the button is disabled and the fetch goes out.
Submit ==
    /\ client.pc # "unloaded"
    /\ ~client.disabled
    /\ client' = [client EXCEPT !.pc = "fetching", !.text = "Processing...",
                                !.disabled = TRUE, !.sentPrice = client.display,
                                !.arrived = FALSE, !.slot = 0]
    /\ UNCHANGED <<variant, secretSet, alive, reqs>>

\* The client's request reaches the server and its handler runs, whatever the
\* server is doing for earlier requests; the server receives MaxReqs requests
\* in one run.
ClientRequestArrives ==
    /\ alive
    /\ client.pc = "fetching"
    /\ ~client.arrived
    /\ \E i \in Reqs :
         /\ Free(i)
         /\ reqs' = [reqs EXCEPT ![i] = CheckoutSync(
                       OrderRequest("finalPrice", FinalPriceText(client.sentPrice), TRUE,
                                    IF client.hasContextField THEN "short" ELSE "none"))]
         /\ client' = [client EXCEPT !.arrived = TRUE, !.slot = i]
    /\ UNCHANGED <<variant, secretSet, alive>>

\* await fetch(...) resolves with the server's response.
FetchResolves ==
    /\ client.pc = "fetching"
    /\ client.arrived
    /\ reqs[client.slot].pc = "done"
    /\ client' = [client EXCEPT !.pc = "parsing"]
    /\ UNCHANGED <<variant, secretSet, alive, reqs>>

\* await fetch(...) or await response.json() rejects: a network failure.
NetworkFails ==
    /\ client.pc \in {"fetching", "parsing"}
    /\ client' = AfterSubmission(client, TRUE)
    /\ UNCHANGED <<variant, secretSet, alive, reqs>>

\* await response.json() settles; an error member is alerted and thrown.
JsonSettles ==
    /\ client.pc = "parsing"
    /\ client' = AfterSubmission(client, \/ JsonRejects(reqs[client.slot])
                                          \/ HasErrorMember(reqs[client.slot]))
    /\ UNCHANGED <<variant, secretSet, alive, reqs>>

NextClient ==
    \/ ChangeType
    \/ ChangeOption
    \/ ChangeFeature
    \/ Submit
    \/ ClientRequestArrives
    \/ FetchResolves
    \/ NetworkFails
    \/ JsonSettles
    \/ \E i \in Reqs : CreateSettle(i)

SpecClient == InitClient /\ [][NextClient]_vars

\* ------------------------------------------------- /create-payment-intent
\* The smallest amount the handler lets through, in minor units.
MinAmount == 50

\* x < n, the operand converted by ToNumber; a comparison with NaN is false.
\* x is counted in eighths.
LessThan(x, n) == ~ToNumber(x).nan /\ ToNumber(x).v < 8 * n

\* if (!amount || amount < 50 || !currency)
InvalidAmountOrCurrency(amount, currency) ==
    \/ ~Truthy(amount)
    \/ LessThan(amount, MinAmount)
    \/ ~Truthy(currency)

\* await stripe.paymentIntents.create({ amount, currency, ... })
CallCreateIntent(r) ==
    [r EXCEPT !.intents = Append(@, [amount |-> r.amount, currency |-> r.intentCurrency]),
              !.pc = "awaitIntent"]

\* The /create-payment-intent handler of part_000 up to its await or response.
IntentPart000(r) ==
    IF InvalidAmountOrCurrency(r.amount, r.intentCurrency)
    THEN Respond(r, 400, "invalid_amount")
    ELSE CallCreateIntent(r)

\* Only part_000 registers the route: Express answers 404 in the others.
IntentSync(r) ==
    IF variant = "part000" THEN IntentPart000(r) ELSE Respond(r, 404, "not_found")

\* After await stripe.paymentIntents.create settles: the client secret, or 500
\* with e.message.
AfterIntent(r, ok) ==
    IF ok THEN Respond(r, 200, "client_secret") ELSE Respond(r, 500, "error_message")

\* The amounts drawn: absent, null, numbers around 0 and around the minimum,
\* and the strings "", "abc", "49", "51", "51abc".
IntentAmounts ==
    {JsUndefined, JsNull}
    \cup {JsNumber(8 * k) : k \in {0 - 1, 0, MinAmount - 1, MinAmount, MinAmount + 1}}
    \cup {JsNumber(8 * MinAmount - 1)}
    \cup {JsString(0, FALSE, FALSE), JsString(0, FALSE, TRUE)}
    \cup {JsString(8 * (MinAmount - 1), TRUE, FALSE)}
    \cup {JsString(8 * (MinAmount + 1), TRUE, j) : j \in BOOLEAN}

\* The currencies drawn: absent, "" and "usd".
IntentCurrencies == {JsUndefined, JsString(0, FALSE, FALSE), JsString(0, FALSE, TRUE)}

\* POST /create-payment-intent arrives, whatever the server is doing for
\* earlier requests.
IntentReceive(i) ==
    /\ Free(i)
    /\ \E amount \in IntentAmounts, currency \in IntentCurrencies :
         reqs' = [reqs EXCEPT ![i] = IntentSync(
                    [NoRequest EXCEPT !.kind = "intent", !.amount = amount,
                                      !.intentCurrency = currency])]
    /\ UNCHANGED <<variant, secretSet, alive, client>>

IntentSettle(i) ==
    /\ alive
    /\ reqs[i].pc = "awaitIntent"
    /\ \E ok \in BOOLEAN :
         reqs' = [reqs EXCEPT ![i] = AfterIntent(reqs[i], ok)]
    /\ UNCHANGED <<variant, secretSet, alive, client>>

NextIntent ==
    \E i \in Reqs :
        \/ IntentReceive(i)
        \/ IntentSettle(i)

SpecIntent == Init /\ [][NextIntent]_vars

\* ------------------------------------------------------------------ claims
Webhooks == {i \in Reqs : reqs[i].kind = "webhook"}
Checkouts == {i \in Reqs : reqs[i].kind = "checkout"}

\* The event passed verification; part_001 verifies nothing and accepts all.
Verified(r) == secretSet /\ r.sig = "valid"
Accepted(r) == variant = "part001" \/ Verified(r)

\* The variants that register /create-checkout-session.
HasCheckoutRoute == variant \in {"server1", "server2", "part001"}

\* A call of sessions.create with a unit_amount that is a number <= 0.
NonPositiveCreate(r) ==
    \E k \in 1..Len(r.creates) :
        ~r.creates[k].unit_amount.nan /\ r.creates[k].unit_amount.v <= 0

\* C1: with a secret configured, a /webhook request whose signature is missing
\* or invalid is answered 400 and causes no provider query and no Notifier
\* call, in every server variant.
C1_BadSignatureRejected ==
    \A i \in Webhooks :
        (secretSet /\ reqs[i].sig # "valid")
            => /\ reqs[i].pc = "done"
               /\ reqs[i].status = 400
               /\ reqs[i].queries = 0
               /\ reqs[i].notifs = 0

\* C2: once the Notifier call of a 'checkout.session.completed' event has
\* settled, failed or not, the request is answered 200 {received: true}: a
\* Notifier failure gives the same response as a success.
C2_AckIndependentOfNotifier ==
    \A i \in Webhooks :
        (reqs[i].type = Completed /\ reqs[i].notifyResult \in {"ok", "failed"})
            => /\ reqs[i].pc = "done"
               /\ reqs[i].status = 200
               /\ reqs[i].body = "received"
               /\ reqs[i].responses = 1

\* C2 witness: a verified paid event whose Notifier call failed was answered.
C2_Witness ==
    \E i \in Webhooks :
        /\ Verified(reqs[i])
        /\ reqs[i].type = Completed
        /\ reqs[i].notifyResult = "failed"
        /\ reqs[i].pc = "done"

\* C3: sessions.create is never called with a unit_amount that is zero or
\* negative.
C3_NoNonPositiveAmount ==
    \A i \in Checkouts : ~NonPositiveCreate(reqs[i])

\* C4: a verified event (in part_001: an accepted one) of a type other than
\* 'checkout.session.completed' is answered 200 {received: true} with no
\* Notifier call and no provider query.
C4_OtherTypesOnlyAcknowledged ==
    \A i \in Webhooks :
        (Accepted(reqs[i]) /\ reqs[i].type # Completed)
            => /\ reqs[i].pc = "done"
               /\ reqs[i].status = 200
               /\ reqs[i].body = "received"
               /\ reqs[i].notifs = 0
               /\ reqs[i].queries = 0

\* C4 witness: a verified event of another type was acknowledged.
C4_Witness ==
    \E i \in Webhooks :
        /\ Verified(reqs[i])
        /\ variant # "part001"
        /\ reqs[i].type # Completed
        /\ reqs[i].status = 200

\* C5: an acknowledged verified 'checkout.session.completed' event has had
\* exactly one Notifier call, whatever the line-item query returned. (Stated
\* for the events of a payment, which carry a currency.)
C5_NotifierExactlyOnce ==
    \A i \in Webhooks :
        (Verified(reqs[i]) /\ reqs[i].type = Completed
            /\ reqs[i].currency # "null" /\ reqs[i].pc = "done")
            => reqs[i].notifs = 1

\* C6: a 'checkout.session.completed' event whose provider re-query failed is
\* answered 200: the failure is swallowed and the request is not left
\* without a response.
C6_QueryFailureSwallowed ==
    \A i \in Webhooks :
        (Accepted(reqs[i]) /\ reqs[i].type = Completed
            /\ reqs[i].queryResult = "failed")
            => /\ reqs[i].pc = "done"
               /\ reqs[i].status = 200

\* C7: a /create-checkout-session request with a numeric price p > 0 makes one
\* provider call, with unit_amount = round(p * 100) (a tie going up),
\* quantity 1, currency 'usd' and mode 'payment'. (p is v eighths of a dollar,
\* p * 100 is 25 * v half cents.)
C7_AmountIsRoundedPrice ==
    \A i \in Checkouts :
        (HasCheckoutRoute /\ reqs[i].price.t = "number" /\ reqs[i].price.v > 0)
            => reqs[i].creates =
                 <<[unit_amount |-> [nan |-> FALSE, v |-> (25 * reqs[i].price.v + 1) \div 2],
                    quantity |-> 1, currency |-> "usd", mode |-> "payment"]>>

\* The price field is absent, null or a string that is not a number.
MissingOrNonNumeric(p) ==
    \/ p.t \in {"undefined", "null"}
    \/ p.t = "string" /\ p.junk /\ ~p.digits

\* C8: a /create-checkout-session request whose price is missing or
\* non-numeric creates the session with the fallback price, unit_amount 400.
C8_FallbackPriceUsed ==
    \A i \in Checkouts :
        (HasCheckoutRoute /\ MissingOrNonNumeric(reqs[i].price))
            => /\ Len(reqs[i].creates) = 1
               /\ reqs[i].creates[1].unit_amount = [nan |-> FALSE, v |-> 400]

\* C9: with no signing secret configured, every /webhook request is answered
\* 500 with no verification attempt, no provider query and no Notifier call.
C9_MissingSecretIs500 ==
    \A i \in Webhooks :
        ~secretSet
            => /\ reqs[i].pc = "done"
               /\ reqs[i].status = 500
               /\ reqs[i].verifies = 0
               /\ reqs[i].queries = 0
               /\ reqs[i].notifs = 0

\* C10, as claimed: a failed provider call gives a 500 response with the
\* generic error body, one provider call and one response.
C10_FailureIsGeneric500 ==
    \A i \in Checkouts :
        reqs[i].createResult = "failed"
            => /\ reqs[i].pc = "done"
               /\ reqs[i].status = 500
               /\ reqs[i].body = "generic_error"
               /\ Len(reqs[i].creates) = 1
               /\ reqs[i].responses = 1

\* C10, amended: a failed provider call gives a 500 response, one provider
\* call (no retry) and one response; the body is the fixed generic message in
\* both server.js variants and the provider's error message in part_001.
C10_FailureIs500NoRetry ==
    \A i \in Checkouts :
        reqs[i].createResult = "failed"
            => /\ reqs[i].pc = "done"
               /\ reqs[i].status = 500
               /\ reqs[i].body =
                    (IF variant = "part001" THEN "error_message" ELSE "generic_error")
               /\ Len(reqs[i].creates) = 1
               /\ reqs[i].responses = 1

\* C10 witness: part_001 answered a failed provider call.
C10_Witness ==
    \E i \in Checkouts :
        /\ variant = "part001"
        /\ reqs[i].createResult = "failed"
        /\ reqs[i].status = 500

\* The same event delivered in two requests: same signed body and header.
SameDelivery(a, b) ==
    /\ a.sig = b.sig
    /\ a.type = b.type
    /\ a.currency = b.currency

\* C13: when the provider delivers the same verified 'checkout.session.completed'
\* event in two requests, each acknowledged delivery has made its own Notifier
\* attempt and was answered 200: n deliveries, n attempts. (Stated for the
\* events of a payment, which carry a currency.)
C13_EveryDeliveryNotified ==
    \A i \in Webhooks : \A j \in Webhooks :
        (/\ i # j
         /\ SameDelivery(reqs[i], reqs[j])
         /\ Verified(reqs[i])
         /\ reqs[i].type = Completed
         /\ reqs[i].currency # "null"
         /\ reqs[i].pc = "done"
         /\ reqs[j].pc = "done")
            => /\ reqs[i].notifs = 1
               /\ reqs[j].notifs = 1
               /\ reqs[i].status = 200
               /\ reqs[j].status = 200

\* The request is suspended on an outbound call.
InFlight(r) == r.pc \in {"awaitLineItems", "awaitRetrieve", "awaitNotify", "awaitCreate"}

\* C14: a request is handled as if it were alone: whatever the other requests
\* did, a request suspended on its outbound call resumes when the call settles
\* (as it always does when handled alone).
C14_RequestsIndependent ==
    \A i \in Reqs :
        InFlight(reqs[i])
            => ENABLED (\/ LineItemsSettle(i)
                        \/ RetrieveSettle(i)
                        \/ NotifySettle(i)
                        \/ CreateSettle(i))

\* C15: no response is sent for a webhook request while its provider query or
\* its Notifier call is still in flight: the acknowledgment follows the
\* settling of the call, and is not sent if the call never settles.
C15_AckAfterNotifierSettles ==
    \A i \in Webhooks :
        /\ (reqs[i].notifs > 0 /\ reqs[i].notifyResult = "none")
              => (reqs[i].status = 0 /\ reqs[i].responses = 0)
        /\ (reqs[i].queries > 0 /\ reqs[i].queryResult = "none")
              => (reqs[i].status = 0 /\ reqs[i].responses = 0)

\* C15 witness: a verified paid event whose Notifier call is in flight, not
\* yet acknowledged.
C15_Witness ==
    \E i \in Webhooks :
        /\ Verified(reqs[i])
        /\ reqs[i].type = Completed
        /\ reqs[i].pc = "awaitNotify"
        /\ reqs[i].notifs = 1
        /\ reqs[i].status = 0

\* C11, as claimed: the payload of the notification of a verified
\* 'checkout.session.completed' event carries amount_total / 100 with exactly
\* two decimals and the event's currency code in upper case.
C11_AmountAndEventCurrency ==
    \A i \in Webhooks :
        (Verified(reqs[i]) /\ reqs[i].type = Completed /\ reqs[i].notifs > 0)
            => /\ reqs[i].payload.amount.whole * 100 + reqs[i].payload.amount.frac
                    = reqs[i].amount_total
               /\ reqs[i].payload.amount.frac \in 0..99
               /\ reqs[i].currency = "usd" => reqs[i].payload.currency = "USD"
               /\ reqs[i].currency = "eur" => reqs[i].payload.currency = "EUR"

\* C11, amended: the payload carries amount_total / 100 with exactly two
\* decimals in every variant, amount_total being the event's in server.js and
\* part_000 and that of the session retrieved from the provider in part_001;
\* part_000 adds the event's currency code in upper case, both server.js
\* variants the fixed code USD whatever the event's currency, and part_001 no
\* currency code.
C11_AmountTwoDecimals ==
    \A i \in Webhooks :
        (Accepted(reqs[i]) /\ reqs[i].type = Completed /\ reqs[i].notifs > 0)
            => /\ reqs[i].payload.amount.whole * 100 + reqs[i].payload.amount.frac
                    = IF variant = "part001" THEN reqs[i].full.amount_total
                      ELSE reqs[i].amount_total
               /\ reqs[i].payload.amount.frac \in 0..99
               /\ variant = "part000" =>
                    /\ reqs[i].currency = "usd" => reqs[i].payload.currency = "USD"
                    /\ reqs[i].currency = "eur" => reqs[i].payload.currency = "EUR"
               /\ variant \in {"server1", "server2"} => reqs[i].payload.currency = "USD"
               /\ variant = "part001" => reqs[i].payload.currency = "none"

\* C11 witness: part_000 notified a verified event of 5000 cents in usd as
\* 50.00 USD.
C11_Witness ==
    \E i \in Webhooks :
        /\ variant = "part000"
        /\ Verified(reqs[i])
        /\ reqs[i].type = Completed
        /\ reqs[i].amount_total = 5000
        /\ reqs[i].currency = "usd"
        /\ reqs[i].notifs = 1
        /\ reqs[i].payload.amount = [whole |-> 50, frac |-> 0]
        /\ reqs[i].payload.currency = "USD"

\* The metadata a request body supplies, as the session should carry it.
SuppliedMeta(r) ==
    [details |-> r.hasDetails,
     context |-> IF ~r.hasContext THEN "none"
                 ELSE IF r.longContext THEN "long" ELSE "short"]

\* C12: the session created for a request that supplies order metadata
\* carries that metadata, and the notification of the session's
\* 'checkout.session.completed' event shows the same metadata.
C12_MetadataCarried ==
    /\ \A i \in Checkouts :
          (HasCheckoutRoute /\ reqs[i].hasDetails /\ Len(reqs[i].creates) > 0)
              => reqs[i].metadata = SuppliedMeta(reqs[i])
    /\ \A j \in Webhooks :
          (/\ reqs[j].session # 0
           /\ Accepted(reqs[j])
           /\ reqs[j].type = Completed
           /\ reqs[j].notifs > 0
           /\ reqs[reqs[j].session].hasDetails)
              => reqs[j].payload.meta = SuppliedMeta(reqs[reqs[j].session])

\* A submission of the client script is running: its fetch or the reading of
\* its response has not settled.
SubmissionInFlight == client.pc \in {"fetching", "parsing"}

\* The client script has a submission out whose request reached the server.
ClientOrderArrived == SubmissionInFlight /\ client.arrived

\* C16: for every order submitted by the client script, each unit_amount the
\* server passes to the provider equals the total displayed at submit time
\* times 100: the price field the client sends is the one the handler reads.
C16_ChargedDisplayedTotal ==
    ClientOrderArrived
        => \A k \in 1..Len(reqs[client.slot].creates) :
              reqs[client.slot].creates[k].unit_amount = Num(100 * client.sentPrice)

\* C17: the checkout button is disabled while a submission is in flight, and
\* enabled whenever none is: after a response without error, an error response
\* and a network failure alike.
C17_ButtonFollowsSubmission ==
    client.pc # "unloaded" => (client.disabled <=> SubmissionInFlight)

\* A submission of a displayed $0.00 that part_001 answered 400 has ended and
\* the button is enabled again.
C17_Witness ==
    /\ client.pc = "idle"
    /\ client.arrived
    /\ client.text = "Try Again"
    /\ reqs[client.slot].pc = "done"
    /\ reqs[client.slot].status = 400
    /\ reqs[client.slot].body = "price_error"
    /\ ~client.disabled

\* The amount is absent or null, zero, or a number or numeric text below the
\* minimum.
MissingZeroOrLow(amount) ==
    \/ amount.t \in {"undefined", "null"}
    \/ amount.t = "string" /\ ~amount.digits /\ ~amount.junk
    \/ /\ amount.t = "number" \/ (amount.t = "string" /\ amount.digits /\ ~amount.junk)
       /\ amount.v < 8 * MinAmount

\* The amount is the minimum or more: a number, or the text of one.
AtLeastMinimum(amount) ==
    /\ amount.t = "number" \/ (amount.t = "string" /\ amount.digits /\ ~amount.junk)
    /\ amount.v >= 8 * MinAmount

\* The currency is absent or the empty string.
CurrencyMissing(currency) ==
    currency.t = "undefined" \/ (currency.t = "string" /\ ~currency.digits /\ ~currency.junk)

\* The /create-payment-intent requests handled by part_000.
Intents == {i \in Reqs : variant = "part000" /\ reqs[i].kind = "intent"}

\* The first half of C18: a request with a missing, zero or low amount or a
\* missing currency is answered 400 without a provider call.
IntentRejected ==
    \A i \in Intents :
        (\/ MissingZeroOrLow(reqs[i].amount)
         \/ CurrencyMissing(reqs[i].intentCurrency))
            => /\ reqs[i].pc = "done"
               /\ reqs[i].status = 400
               /\ reqs[i].responses = 1
               /\ reqs[i].intents = <<>>

\* C18: in part_000 a /create-payment-intent request with a missing, zero or
\* low amount or a missing currency is answered 400 and makes no call of
\* paymentIntents.create; every call made carries an amount >= 50 and a
\* non-empty currency.
C18_ProviderOnlyWithValidAmount ==
    /\ IntentRejected
    /\ \A i \in Intents :
          \A k \in 1..Len(reqs[i].intents) :
              /\ AtLeastMinimum(reqs[i].intents[k].amount)
              /\ ~CurrencyMissing(reqs[i].intents[k].currency)

====
